---- MODULE Spec2Model ----
(***************************************************************************)
(* Verification model of the promql-engine selector operators              *)
(* (physicalplan/scan vector selector, the matrix selector) and of the     *)
(* distributed execution optimizer (logicalplan/distribute.go).            *)
(*                                                                         *)
(* Timestamps are integers (milliseconds).  A float sample is a record     *)
(* [T, V]; histograms are not modelled.  A series of storage is a          *)
(* sequence of samples with strictly increasing T.                         *)
(***************************************************************************)
EXTENDS Integers, Sequences, FiniteSets, TLC

\* ------------------------------------------------------------------ bounds
MaxTime  == 3   \* sample timestamps and step times lie in 0..MaxTime
MaxRange == 2   \* selectRange of the matrix selector lies in 0..MaxRange
MaxStep  == 2   \* step of a range query lies in 1..MaxStep
MaxExt   == 1   \* extLookbackDelta / lookbackDelta lie in 0..MaxExt
MaxBatch == 2   \* steps per batch lie in 1..MaxBatch
MaxSeries == 2  \* the storage holds 0..MaxSeries series
MaxEngines == 2 \* the optimizer knows 1..MaxEngines remote engines
MaxThreads == 2 \* goroutines that call Series and Next on one operator
MaxDepth == 2   \* expressions handed to the optimizer nest up to MaxDepth deep

\* ------------------------------------------------------- samples, storage
\* value.StaleNaN: the one float value that marks a stale sample.
StaleNaN == -1

IsStaleNaN(v) == v = StaleNaN

\* math.MinInt64 as far as the model needs it: below every timestamp minus
\* every window.
MinInt64 == -1000000

Times == 0..MaxTime

\* Value carried by the live sample written at time t (distinct per time).
ValueAt(t) == 10 + t

SampleKinds == {"none", "float", "stale"}

\* The series (time-ordered samples) that has, at each time t, no sample, a
\* live float sample or a stale marker.
RECURSIVE StreamFrom(_, _)
StreamFrom(kinds, t) ==
    IF t > MaxTime THEN <<>>
    ELSE (IF kinds[t] = "none" THEN <<>>
          ELSE << [T |-> t,
                   V |-> IF kinds[t] = "stale" THEN StaleNaN ELSE ValueAt(t)] >>)
         \o StreamFrom(kinds, t + 1)

Streams == { StreamFrom(k, 0) : k \in [Times -> SampleKinds] }

Last(s) == s[Len(s)]

\* ------------------------------------------- storage.BufferedSeriesIterator
\* A buffered iterator over the samples `ss`:
\*   idx       position of the wrapped iterator (Len(ss)+1: exhausted)
\*   valueType "float" while the wrapped iterator is at a sample, else "none"
\*   lastTime  timestamp of the sample last reached
\*   buf       the sample ring, oldest first
\*   delta     the ring's window

\* sampleRing: drop from the head every sample older than tmin.
RECURSIVE ringFree(_, _)
ringFree(buf, tmin) ==
    IF Len(buf) > 0 /\ Head(buf).T < tmin THEN ringFree(Tail(buf), tmin) ELSE buf

\* sampleRing.add
ringAdd(buf, s, delta) == ringFree(Append(buf, s), s.T - delta)

\* storage.NewBufferIterator(it, delta): Reset reads the first sample.
NewBufferIterator(ss, delta) ==
    [idx       |-> 1,
     valueType |-> IF Len(ss) >= 1 THEN "float" ELSE "none",
     lastTime  |-> MinInt64,
     buf       |-> <<>>,
     delta     |-> delta]

\* BufferedSeriesIterator.ReduceDelta / sampleRing.reduceDelta
ReduceDelta(b, delta) ==
    IF delta > b.delta THEN b
    ELSE IF Len(b.buf) = 0 THEN [b EXCEPT !.delta = delta]
    ELSE [b EXCEPT !.delta = delta,
                   !.buf = ringFree(b.buf, Last(b.buf).T - delta)]

\* BufferedSeriesIterator.Next: buffer the current sample, then advance.
bufNext(b, ss) ==
    IF b.valueType = "none" THEN b
    ELSE LET nidx == b.idx + 1
         IN [b EXCEPT !.buf = ringAdd(b.buf, ss[b.idx], b.delta),
                      !.idx = nidx,
                      !.valueType = IF nidx <= Len(ss) THEN "float" ELSE "none",
                      !.lastTime = IF nidx <= Len(ss) THEN ss[nidx].T ELSE @]

\* chunkenc.Iterator.Seek of the wrapped iterator: the first position at or
\* after idx whose sample has T >= t (Len(ss)+1 when there is none).
itSeek(ss, idx, t) ==
    IF \E j \in idx..Len(ss) : ss[j].T >= t
    THEN CHOOSE j \in idx..Len(ss) :
            /\ ss[j].T >= t
            /\ \A k \in idx..(j - 1) : ss[k].T < t
    ELSE Len(ss) + 1

\* The advancing loop of BufferedSeriesIterator.Seek.
RECURSIVE bufAdvance(_, _, _)
bufAdvance(b, ss, t) ==
    LET n == bufNext(b, ss)
    IN IF n.valueType = "none" \/ n.lastTime >= t THEN n ELSE bufAdvance(n, ss, t)

\* BufferedSeriesIterator.Seek, first part: when the window before t starts
\* after the sample last reached, drop the buffer and seek the wrapped
\* iterator to t - delta.
bufReseek(b, ss, nidx) ==
    IF nidx > Len(ss)
    THEN [b EXCEPT !.buf = <<>>, !.idx = nidx, !.valueType = "none"]
    ELSE [b EXCEPT !.buf = <<>>, !.idx = nidx, !.valueType = "float",
                   !.lastTime = ss[nidx].T]

\* BufferedSeriesIterator.Seek, second part: advance to t unless there.
bufSeekOn(b, ss, t) == IF b.lastTime >= t THEN b ELSE bufAdvance(b, ss, t)

\* BufferedSeriesIterator.Seek(t); the value type returned is the valueType
\* field of the result.
BufSeek(b, ss, t) ==
    IF b.valueType # "none" /\ t - b.delta > b.lastTime
    THEN IF itSeek(ss, b.idx, t - b.delta) > Len(ss)
         THEN bufReseek(b, ss, Len(ss) + 1)
         ELSE bufSeekOn(bufReseek(b, ss, itSeek(ss, b.idx, t - b.delta)), ss, t)
    ELSE bufSeekOn(b, ss, t)

\* ------------------------------------------------------------ selectPoints
\* function.IsExtFunction: the extended-range functions.
IsExtFunction(functionName) == functionName \in {"xdelta", "xincrease", "xrate"}

\* dropCount that also drops the point at mint of a non-extended window.
dropCountAtMint(out, mint, extRange, extMint) ==
    IF ~extRange
    THEN CHOOSE d \in 0..Len(out) :
            /\ \A j \in 1..d : out[j].T <= mint
            /\ (d = Len(out) \/ out[d + 1].T > mint)
    ELSE LET past == CHOOSE d \in 0..Len(out) :
                        /\ \A j \in 1..d : out[j].T <= mint
                        /\ (d = Len(out) \/ out[d + 1].T > mint)
         IN IF past > 0 /\ out[past].T >= extMint THEN past - 1 ELSE past

\* Number of leading points of out that the reuse prefix drops.
dropCount(out, mint, extRange, extMint) ==
    IF ~extRange
    THEN CHOOSE d \in 0..Len(out) :
            /\ \A j \in 1..d : out[j].T < mint
            /\ (d = Len(out) \/ out[d + 1].T >= mint)
    ELSE LET past == CHOOSE d \in 0..Len(out) :
                        /\ \A j \in 1..d : out[j].T <= mint
                        /\ (d = Len(out) \/ out[d + 1].T > mint)
         IN IF past > 0 /\ out[past].T >= extMint THEN past - 1 ELSE past

\* bufferStep without the staleness filter.
bufferStepKeepsStale(acc, p, mint, extRange) ==
    IF ~extRange
    THEN (IF p.T >= mint THEN [acc EXCEPT !.out = Append(@, p)] ELSE acc)
    ELSE IF p.T > mint \/ ~acc.appended
    THEN [out |-> Append(acc.out, p), appended |-> TRUE]
    ELSE [acc EXCEPT !.out = [@ EXCEPT ![Len(acc.out)] = p]]

\* One sample p of the back-buffer; acc = [out, appended].  A float sample
\* that is a stale NaN is skipped.
bufferStep(acc, p, mint, extRange) ==
    IF IsStaleNaN(p.V) THEN acc
    ELSE IF ~extRange
    THEN (IF p.T >= mint THEN [acc EXCEPT !.out = Append(@, p)] ELSE acc)
    ELSE IF p.T > mint \/ ~acc.appended
    THEN [out |-> Append(acc.out, p), appended |-> TRUE]
    ELSE [acc EXCEPT !.out = [@ EXCEPT ![Len(acc.out)] = p]]

\* The loop over the back-buffer.
RECURSIVE bufferLoop(_, _, _, _)
bufferLoop(buf, acc, mint, extRange) ==
    IF Len(buf) = 0 THEN acc
    ELSE bufferLoop(Tail(buf), bufferStep(acc, Head(buf), mint, extRange),
                    mint, extRange)

\* selectPoints, first part: the points of out that are kept.
retained(out, mint, extRange, extMint) ==
    IF Len(out) > 0 /\ Last(out).T >= mint
    THEN SubSeq(out, dropCount(out, mint, extRange, extMint) + 1, Len(out))
    ELSE <<>>

\* fetchMint that leaves mint where it was when points are retained.
fetchMintSame(out, mint) == mint

\* selectPoints, first part: the least timestamp still to be appended.
fetchMint(out, mint) ==
    IF Len(out) > 0 /\ Last(out).T >= mint THEN Last(out).T + 1 ELSE mint

\* selectPoints, last part: the sought sample is appended when it is at maxt
\* and not stale.
appendSought(out, it, ss, maxt) ==
    IF it.valueType = "float" /\ ss[it.idx].T = maxt /\ ~IsStaleNaN(ss[it.idx].V)
    THEN Append(out, ss[it.idx]) ELSE out

\* selectPoints after the seek to maxt left the iterator as it.
selectSought(it, ss, mint, maxt, out, extRange) ==
    [out |-> appendSought(
                bufferLoop(it.buf, [out |-> out, appended |-> Len(out) > 0],
                           mint, extRange).out,
                it, ss, maxt),
     it |-> it]

\* selectPoints(it, mint, maxt, out, functionName, extLookbackDelta) over the
\* samples ss the iterator wraps; returns the points and the iterator.
selectPoints(it, ss, mint, maxt, out, functionName, extLookbackDelta) ==
    selectSought(BufSeek(it, ss, maxt), ss, fetchMint(out, mint), maxt,
                 retained(out, mint, IsExtFunction(functionName),
                          IF IsExtFunction(functionName)
                          THEN mint - extLookbackDelta ELSE 0),
                 IsExtFunction(functionName))

\* ------------------------------------------------------------------ state
VARIABLES
    store,      \* the series storage: [series: its series, fails: GetSeries
                \* fails, reused: it has reused its label arrays]
    ctxDone,    \* the context handed to Next and Series is cancelled
    vs,         \* the vectorSelector
    ms,         \* the matrixSelector
    ret,        \* per operator, what its last call of Next or Series returned
    calls,      \* FunctionArgs handed to o.call by the last matrixSelector.Next
    emitted,    \* per operator, timestamps of the step vectors returned so far
    root,       \* the operator the caller pulls: "vector", "matrix" or "none"
    query,      \* the query options the selectors were constructed with
    pulls,      \* per operator, the sizes of the batches Next has returned
                \* and whether it has returned end-of-stream
    selected,   \* what selectPoint reported in the last vectorSelector.Next
    opts,       \* logicalplan.Opts of the query being planned
    engines,    \* the remote engines of the optimizer's endpoints
    dedup,      \* the Deduplicate node distributeQuery returned, once it has
    plan,       \* the expression handed to the optimizer
    optimized,  \* the plan Optimize returned, once it has
    rewrites,   \* the nodes Optimize replaced, each as [from, to]
    conc        \* the goroutines calling the operator concurrently: where each
                \* is in its call, the mutex of o.once, the calls of GetSeries

selVars == <<store, ctxDone, vs, ms, ret, calls, emitted, root, query,
             pulls, selected>>

planVars == <<opts, engines, dedup, plan, optimized, rewrites>>

vars == <<store, ctxDone, vs, ms, ret, calls, emitted, root, query,
          pulls, selected, opts, engines, dedup, plan, optimized, rewrites,
          conc>>

\* ------------------------------------------------------------------ labels
MetricName == "__name__"

\* Byte order of the label names the model uses.
labelRank(name) ==
    CASE name = "__name__" -> 1
      [] name = "a" -> 2
      [] name = "b" -> 3
      [] name = "cluster" -> 4
      [] name = "job" -> 5
      [] OTHER -> 6

\* function.DropMetricName on a copy of the labels.
DropMetricName(lbls) == SelectSeq(lbls, LAMBDA l : l.Name # MetricName)

\* sort.Sort(lbls): insertion of each label by name.
RECURSIVE sortLabels(_)
sortLabels(lbls) ==
    IF Len(lbls) <= 1 THEN lbls
    ELSE LET rest == sortLabels(Tail(lbls))
             h == Head(lbls)
         IN SelectSeq(rest, LAMBDA l : labelRank(l.Name) < labelRank(h.Name))
            \o <<h>>
            \o SelectSeq(rest, LAMBDA l : labelRank(l.Name) >= labelRank(h.Name))

\* ------------------------------------------------------------ return values
NoReturn == [call |-> "none", isNil |-> TRUE, vectors |-> <<>>, series |-> <<>>,
             err |-> "nil", ctxDone |-> FALSE]

\* (batch, err) returned by Next
retNext(isNil, vectors, err) ==
    [call |-> "Next", isNil |-> isNil, vectors |-> vectors, series |-> <<>>,
     err |-> err, ctxDone |-> ctxDone]

\* (series, err) returned by Series
retSeries(isNil, series, err) ==
    [call |-> "Series", isNil |-> isNil, vectors |-> <<>>, series |-> series,
     err |-> err, ctxDone |-> ctxDone]

\* The caller's record of its pulls after Next returned (vectors, err):
\* p = [sizes, eos].
pulled(p, isNil, vectors, err) ==
    IF ~isNil THEN [p EXCEPT !.sizes = Append(@, Len(vectors))]
    ELSE IF err = "nil" THEN [p EXCEPT !.eos = TRUE]
    ELSE p

\* model.VectorPool.GetVectorBatch: an empty batch.
GetVectorBatch == <<>>

\* model.VectorPool.GetStepVector(t): an empty step vector for time t.
GetStepVector(t) == [T |-> t, SampleIDs |-> <<>>, Samples |-> <<>>]

batchTimes(vectors) == [k \in 1..Len(vectors) |-> vectors[k].T]

\* query.Options.NumSteps: steps evaluated per batch.
NumSteps(start, end, step, stepsBatch) ==
    IF step = 0 THEN 1
    ELSE LET totalSteps == (end - start) \div step + 1
         IN IF stepsBatch < totalSteps THEN stepsBatch ELSE totalSteps

\* ---------------------------------------------------------- matrixSelector
NewMatrixSelector(functionName, start, end, step, stepsBatch, selectRange, offset, extLookbackDelta) ==
    [funcName    |-> functionName,
     once        |-> FALSE,
     scanners    |-> <<>>,
     series      |-> <<>>,
     numSteps    |-> NumSteps(start, end, step, stepsBatch),
     mint        |-> start,
     maxt        |-> end,
     step        |-> step,
     selectRange |-> selectRange,
     offset      |-> offset,
     currentStep |-> start,
     extLookbackDelta |-> extLookbackDelta]

\* Labels a matrix scanner exposes for a series of storage.
matrixLabels(o, s) ==
    sortLabels(IF o.funcName # "last_over_time"
               THEN DropMetricName(s.Labels) ELSE s.Labels)

\* The array behind the labels of a matrix scanner: a copy of the labels of
\* storage, or, for last_over_time, the array storage holds.
matrixLabelsOf(o) == IF o.funcName # "last_over_time" THEN "copy" ELSE "storage"

\* The storage after the initializer of loadSeries: sort.Sort(lbls) sorts in
\* place, so where lbls is not a copy it sorts the array storage holds.
sortedInPlace(o, st) ==
    [st EXCEPT !.series =
        [i \in 1..Len(st.series) |->
            [st.series[i] EXCEPT !.Labels =
                IF matrixLabelsOf(o) = "storage" THEN sortLabels(@) ELSE @]]]

\* The storage after a call of loadSeries; runs: the call gets to the Once.
matrixStorage(o, st, runs) ==
    IF runs /\ ~o.once /\ ~st.fails THEN sortedInPlace(o, st) ELSE st

\* The scanner that loadSeries builds for series s.
newMatrixScanner(o, s) ==
    [labels         |-> matrixLabels(o, s),
     labelsOf       |-> matrixLabelsOf(o),
     signature      |-> s.Signature,
     previousPoints |-> <<>>,
     samples        |-> NewBufferIterator(s.Samples,
                            IF IsExtFunction(o.funcName)
                            THEN o.selectRange + o.extLookbackDelta
                            ELSE o.selectRange)]

\* matrixSelector.loadSeries: [o, err].  The body runs under o.once; a call
\* that finds the once done returns the nil error of its own `err`.
matrixLoadSeries(o, st) ==
    IF o.once THEN [o |-> o, err |-> "nil"]
    ELSE IF st.fails THEN [o |-> [o EXCEPT !.once = TRUE], err |-> "storage"]
    ELSE [o |-> [o EXCEPT !.once = TRUE,
                          !.scanners = [i \in 1..Len(st.series) |->
                                            newMatrixScanner(o, st.series[i])],
                          !.series = [i \in 1..Len(st.series) |->
                                            matrixLabels(o, st.series[i])]],
          err |-> "nil"]

\* The range function o.call, as far as the selector reads its result: the
\* result carries the step time and is the invalid sample on an empty window.
call(args) ==
    [T |-> args.StepTime, V |-> Len(args.Points), valid |-> Len(args.Points) > 0]

\* StepVector.AppendSample
AppendSample(vector, signature, v) ==
    [vector EXCEPT !.SampleIDs = Append(@, signature), !.Samples = Append(@, v)]

\* Only buffer stepRange milliseconds from the second step on.
stepRange(o) == IF o.selectRange > o.step THEN o.step ELSE o.selectRange

\* The FunctionArgs of a step; Series is the position of the scanner.
functionArgs(o, i, sc, points, seriesTs) ==
    [Series |-> i, Labels |-> sc.labels, Points |-> points,
     StepTime |-> seriesTs, SelectRange |-> o.selectRange, Offset |-> o.offset]

\* The step vector of the batch for the step currStep.
stepVectors(vectors, currStep, seriesTs) ==
    IF Len(vectors) <= currStep
    THEN Append(vectors, GetStepVector(seriesTs))
    ELSE vectors

\* The result of the function goes into the step vector unless it is the
\* invalid sample.
appendResult(vectors, currStep, signature, result) ==
    IF result.valid
    THEN [vectors EXCEPT ![currStep + 1] =
            AppendSample([@ EXCEPT !.T = result.T], signature, result.V)]
    ELSE vectors

\* One iteration of the step loop of matrixSelector.Next for scanner i, once
\* selectPoints has returned rp; acc = [sc, vectors, calls].
matrixStepOn(o, i, currStep, seriesTs, acc, rp) ==
    [sc      |-> [acc.sc EXCEPT !.previousPoints = rp.out,
                                !.samples = ReduceDelta(rp.it, stepRange(o))],
     vectors |-> appendResult(stepVectors(acc.vectors, currStep, seriesTs),
                              currStep, acc.sc.signature,
                              call(functionArgs(o, i, acc.sc, rp.out, seriesTs))),
     calls   |-> Append(acc.calls, functionArgs(o, i, acc.sc, rp.out, seriesTs))]

\* One iteration of the step loop of matrixSelector.Next for scanner i.
matrixStep(o, ss, i, currStep, seriesTs, acc) ==
    matrixStepOn(o, i, currStep, seriesTs, acc,
                 selectPoints(acc.sc.samples, ss,
                              seriesTs - o.offset - o.selectRange,
                              seriesTs - o.offset,
                              acc.sc.previousPoints, o.funcName,
                              o.extLookbackDelta))

\* The step loop of matrixSelector.Next for scanner i.
RECURSIVE matrixSteps(_, _, _, _, _, _)
matrixSteps(o, ss, i, currStep, seriesTs, acc) ==
    IF currStep < o.numSteps /\ seriesTs <= o.maxt
    THEN matrixSteps(o, ss, i, currStep + 1, seriesTs + o.step,
                     matrixStep(o, ss, i, currStep, seriesTs, acc))
    ELSE acc

\* The scanner loop takes over what the step loop of scanner i left.
scanned(acc, i, r) ==
    [scanners |-> [acc.scanners EXCEPT ![i] = r.sc],
     vectors |-> r.vectors, calls |-> r.calls]

\* The loop over the scanners of matrixSelector.Next;
\* acc = [scanners, vectors, calls].
RECURSIVE matrixScan(_, _, _, _)
matrixScan(o, st, i, acc) ==
    IF i > Len(o.scanners) THEN acc
    ELSE matrixScan(o, st, i + 1,
            scanned(acc, i,
                matrixSteps(o, st.series[i].Samples, i, 0, o.currentStep,
                            [sc |-> o.scanners[i], vectors |-> acc.vectors,
                             calls |-> acc.calls])))

\* matrixSelector.Next after the loops: the step of an instant query becomes
\* 1 and currentStep moves on by a batch.
matrixAdvance(o, r) ==
    [o |-> [o EXCEPT !.scanners = r.scanners,
                     !.step = IF o.step = 0 THEN 1 ELSE o.step,
                     !.currentStep = @ + (IF o.step = 0 THEN 1 ELSE o.step)
                                         * o.numSteps],
     isNil |-> FALSE, vectors |-> r.vectors, err |-> "nil", calls |-> r.calls]

\* matrixSelector.Next once loadSeries has returned l.
matrixNextLoaded(l, st) ==
    IF l.err # "nil"
    THEN [o |-> l.o, isNil |-> TRUE, vectors |-> <<>>, err |-> l.err,
          calls |-> <<>>]
    ELSE matrixAdvance(l.o,
            matrixScan(l.o, st, 1,
                       [scanners |-> l.o.scanners, vectors |-> GetVectorBatch,
                        calls |-> <<>>]))

\* matrixSelector.Next(ctx): [o, isNil, vectors, err, calls].
matrixNext(o, st, done) ==
    IF done
    THEN [o |-> o, isNil |-> TRUE, vectors |-> <<>>, err |-> "canceled", calls |-> <<>>]
    ELSE IF o.currentStep > o.maxt
    THEN [o |-> o, isNil |-> TRUE, vectors |-> <<>>, err |-> "nil", calls |-> <<>>]
    ELSE matrixNextLoaded(matrixLoadSeries(o, st), st)

\* The caller's view of a call of matrixSelector.Next that returned r.
matrixReturned(r) ==
    /\ ms' = r.o
    /\ ret' = [ret EXCEPT !.matrix = retNext(r.isNil, r.vectors, r.err)]
    /\ calls' = r.calls
    /\ emitted' = [emitted EXCEPT !.matrix = @ \o batchTimes(r.vectors)]
    /\ pulls' = [pulls EXCEPT !.matrix = pulled(@, r.isNil, r.vectors, r.err)]

\* A call of matrixSelector.Next.
MatrixNext ==
    /\ root = "matrix"
    /\ matrixReturned(matrixNext(ms, store, ctxDone))
    /\ store' = matrixStorage(ms, store, ~ctxDone /\ ms.currentStep <= ms.maxt)
    /\ UNCHANGED <<ctxDone, vs, root, query, selected>>
    /\ UNCHANGED planVars
    /\ UNCHANGED conc

\* The labels of another series, which storage writes into a label array it
\* reuses for a later Select.
reusedLabels(lbls) == [k \in 1..Len(lbls) |-> [lbls[k] EXCEPT !.Value = MaxSeries + 1]]

\* The operator after storage has reused its label arrays: labels that are
\* not a copy show what storage has written.
afterReuse(o, st) ==
    IF matrixLabelsOf(o) = "copy" THEN o
    ELSE [o EXCEPT !.series = [i \in 1..Len(o.series) |-> st.series[i].Labels],
                   !.scanners = [i \in 1..Len(o.scanners) |->
                        [o.scanners[i] EXCEPT !.labels = st.series[i].Labels]]]

\* The storage after it has reused its label arrays.
reusedStorage(st) ==
    [st EXCEPT !.reused = TRUE,
               !.series = [i \in 1..Len(st.series) |->
                             [st.series[i] EXCEPT !.Labels = reusedLabels(@)]]]

\* After the enumeration, storage reuses the label arrays of its series for
\* another Select.
StorageReuse ==
    /\ root = "matrix"
    /\ ms.once
    /\ Len(ms.series) > 0
    /\ ~store.reused
    /\ store' = reusedStorage(store)
    /\ ms' = afterReuse(ms, reusedStorage(store))
    /\ UNCHANGED <<ctxDone, vs, ret, calls, emitted, root, query, pulls, selected>>
    /\ UNCHANGED planVars
    /\ UNCHANGED conc

\* A call of matrixSelector.Series.
MatrixSeries ==
    /\ root = "matrix"
    /\ LET l == matrixLoadSeries(ms, store)
       IN /\ ms' = l.o
          /\ ret' = [ret EXCEPT !.matrix =
                       IF l.err # "nil" THEN retSeries(TRUE, <<>>, l.err)
                       ELSE retSeries(store.fails, l.o.series, "nil")]
    /\ store' = matrixStorage(ms, store, TRUE)
    /\ UNCHANGED <<ctxDone, vs, calls, emitted, root, query, pulls, selected>>
    /\ UNCHANGED planVars
    /\ UNCHANGED conc

\* ----------------------------------------------------------- vectorScanner
\* The scanner that vectorSelector.loadSeries builds for series s; idx is the
\* position of its chunkenc.Iterator (0: before the first sample; once the
\* samples are exhausted it stays on the last one).
newVectorScanner(s) ==
    [labels    |-> s.Labels,
     signature |-> s.Signature,
     idx       |-> 0,
     pastFirstIteration |-> FALSE,
     hasPrev   |-> FALSE,
     prevTime  |-> 0,
     prevValue |-> 0]

\* vectorScanner.Seek(ts): [it, ok]
RECURSIVE Seek(_, _, _)
Seek(it, ss, ts) ==
    LET it1 == IF it.pastFirstIteration
               THEN [it EXCEPT !.prevTime = ss[it.idx].T,
                               !.prevValue = ss[it.idx].V,
                               !.hasPrev = TRUE]
               ELSE it
    IN IF it1.idx < Len(ss)
       THEN LET it2 == [it1 EXCEPT !.idx = @ + 1, !.pastFirstIteration = TRUE]
            IN IF ss[it2.idx].T >= ts THEN [it |-> it2, ok |-> TRUE]
               ELSE Seek(it2, ss, ts)
       ELSE [it |-> it1, ok |-> FALSE]

\* vectorScanner.selectPoint(ts, lookbackDelta): [it, t, v, ok]
selectPoint(it, ss, ts, lookbackDelta) ==
    LET refTime == ts
        sk == Seek(it, ss, refTime)
        at == IF sk.ok THEN ss[sk.it.idx] ELSE [T |-> 0, V |-> 0]
        usePrev == ~sk.ok \/ at.T > refTime
        t == IF usePrev THEN sk.it.prevTime ELSE at.T
        v == IF usePrev THEN sk.it.prevValue ELSE at.V
        ok == IF usePrev THEN sk.it.hasPrev ELSE sk.ok
    IN IF usePrev /\ (~ok \/ t < refTime - lookbackDelta)
       THEN [it |-> sk.it, t |-> 0, v |-> 0, ok |-> FALSE]
       ELSE IF IsStaleNaN(v)
       THEN [it |-> sk.it, t |-> 0, v |-> 0, ok |-> FALSE]
       ELSE [it |-> sk.it, t |-> t, v |-> v, ok |-> TRUE]

\* ---------------------------------------------------------- vectorSelector
NewVectorSelector(mint, maxt, step, lookbackDelta, stepsBatch) ==
    [once        |-> FALSE,
     scanners    |-> <<>>,
     series      |-> <<>>,
     mint        |-> mint,
     maxt        |-> maxt,
     step        |-> step,
     currentStep |-> mint,
     stepsBatch  |-> stepsBatch,
     lookbackDelta |-> lookbackDelta]

\* vectorSelector.loadSeries: [o, err], as matrixLoadSeries.
vectorLoadSeries(o, st) ==
    IF o.once THEN [o |-> o, err |-> "nil"]
    ELSE IF st.fails THEN [o |-> [o EXCEPT !.once = TRUE], err |-> "storage"]
    ELSE [o |-> [o EXCEPT !.once = TRUE,
                          !.scanners = [i \in 1..Len(st.series) |->
                                            newVectorScanner(st.series[i])],
                          !.series = [i \in 1..Len(st.series) |->
                                            st.series[i].Labels]],
          err |-> "nil"]

\* What the step loop notes of a selectPoint(ts, lookbackDelta) that
\* returned p.
noted(sel, p, ts, lookbackDelta) ==
    IF p.ok
    THEN Append(sel, [ts |-> ts, lookbackDelta |-> lookbackDelta, t |-> p.t, v |-> p.v])
    ELSE sel

\* The value selectPoint returned goes into the step vector when ok.
appendPoint(vectors, currStep, signature, p) ==
    IF p.ok
    THEN [vectors EXCEPT ![currStep + 1] = AppendSample(@, signature, p.v)]
    ELSE vectors

\* One iteration of the step loop of vectorSelector.Next, once selectPoint
\* has returned p; acc = [sc, vectors, selected].
vectorStepOn(o, currStep, seriesTs, acc, p) ==
    [sc       |-> p.it,
     vectors  |-> appendPoint(stepVectors(acc.vectors, currStep, seriesTs),
                              currStep, acc.sc.signature, p),
     selected |-> noted(acc.selected, p, seriesTs, o.lookbackDelta)]

\* The step loop of vectorSelector.Next for one scanner.
RECURSIVE vectorSteps(_, _, _, _, _, _)
vectorSteps(o, ss, numSteps, currStep, seriesTs, acc) ==
    IF currStep < numSteps /\ seriesTs <= o.maxt
    THEN vectorSteps(o, ss, numSteps, currStep + 1, seriesTs + o.step,
                     vectorStepOn(o, currStep, seriesTs, acc,
                                  selectPoint(acc.sc, ss, seriesTs,
                                              o.lookbackDelta)))
    ELSE acc

\* The scanner loop takes over what the step loop of scanner i left.
vectorScanned(acc, i, r) ==
    [scanners |-> [acc.scanners EXCEPT ![i] = r.sc],
     vectors |-> r.vectors, selected |-> r.selected]

\* The loop over the scanners of vectorSelector.Next;
\* acc = [scanners, vectors, selected].
RECURSIVE vectorScan(_, _, _, _, _)
vectorScan(o, st, numSteps, i, acc) ==
    IF i > Len(o.scanners) THEN acc
    ELSE vectorScan(o, st, numSteps, i + 1,
            vectorScanned(acc, i,
                vectorSteps(o, st.series[i].Samples, numSteps, 0, o.currentStep,
                            [sc |-> o.scanners[i], vectors |-> acc.vectors,
                             selected |-> acc.selected])))

\* Steps of one batch: min(stepsBatch, totalSteps).
vectorNumSteps(o) ==
    LET totalSteps == IF o.step # 0 THEN (o.maxt - o.mint) \div o.step + 1 ELSE 1
    IN IF o.stepsBatch < totalSteps THEN o.stepsBatch ELSE totalSteps

\* For instant queries the step becomes 1.
vectorPositiveStep(o) == IF o.step # 0 THEN o ELSE [o EXCEPT !.step = 1]

\* vectorSelector.Next after the loops: currentStep moves on by a batch.
vectorAdvance(o, numSteps, r) ==
    [o |-> [o EXCEPT !.scanners = r.scanners,
                     !.currentStep = @ + o.step * numSteps],
     isNil |-> FALSE, vectors |-> r.vectors, err |-> "nil",
     selected |-> r.selected]

\* vectorSelector.Next once loadSeries has returned l.
vectorNextLoaded(l, st) ==
    IF l.err # "nil"
    THEN [o |-> l.o, isNil |-> TRUE, vectors |-> <<>>, err |-> l.err,
          selected |-> <<>>]
    ELSE vectorAdvance(vectorPositiveStep(l.o), vectorNumSteps(l.o),
            vectorScan(vectorPositiveStep(l.o), st, vectorNumSteps(l.o), 1,
                       [scanners |-> l.o.scanners, vectors |-> GetVectorBatch,
                        selected |-> <<>>]))

\* vectorSelector.Next(ctx): [o, isNil, vectors, err, selected].  The context
\* is only handed on to loadSeries.
vectorNext(o, st, done) ==
    IF o.currentStep > o.maxt
    THEN [o |-> o, isNil |-> TRUE, vectors |-> <<>>, err |-> "nil",
          selected |-> <<>>]
    ELSE vectorNextLoaded(vectorLoadSeries(o, st), st)

\* The caller's view of a call of vectorSelector.Next that returned r.
vectorReturned(r) ==
    /\ vs' = r.o
    /\ ret' = [ret EXCEPT !.vector = retNext(r.isNil, r.vectors, r.err)]
    /\ emitted' = [emitted EXCEPT !.vector = @ \o batchTimes(r.vectors)]
    /\ pulls' = [pulls EXCEPT !.vector = pulled(@, r.isNil, r.vectors, r.err)]
    /\ selected' = r.selected

\* A call of vectorSelector.Next.
VectorNext ==
    /\ root = "vector"
    /\ vectorReturned(vectorNext(vs, store, ctxDone))
    /\ UNCHANGED <<store, ctxDone, ms, calls, root, query>>
    /\ UNCHANGED planVars
    /\ UNCHANGED conc

\* A call of vectorSelector.Series.
VectorSeries ==
    /\ root = "vector"
    /\ LET l == vectorLoadSeries(vs, store)
       IN /\ vs' = l.o
          /\ ret' = [ret EXCEPT !.vector =
                       IF l.err # "nil" THEN retSeries(TRUE, <<>>, l.err)
                       ELSE retSeries(store.fails, l.o.series, "nil")]
    /\ UNCHANGED <<store, ctxDone, ms, calls, emitted, root, query, pulls, selected>>
    /\ UNCHANGED planVars
    /\ UNCHANGED conc

\* The caller cancels the context it hands to Next and Series.
CancelCtx ==
    /\ root # "none"
    /\ ~ctxDone
    /\ ctxDone' = TRUE
    /\ UNCHANGED <<store, vs, ms, ret, calls, emitted, root, query, pulls, selected>>
    /\ UNCHANGED planVars
    /\ UNCHANGED conc

\* ------------------------------------------------- concurrent calls, o.once
\* Goroutines call Series and Next of the operator `root` at the same time.
\* A call is followed through loadSeries up to its first read of o.series
\* or o.scanners; pc of a goroutine:
\*   "idle"       not in a call
\*   "do"         at o.once.Do: about to load the done flag of the Once
\*   "lock"       in doSlow, waiting for the mutex of the Once
\*   "getSeries"  in the initializer, about to call GetSeries
\*   "fill"       in the initializer, about to fill o.scanners and o.series
\*   "done"       leaving doSlow: store the done flag, unlock
\*   "read"       loadSeries has returned nil: about to read
Threads == 1..MaxThreads

operator == IF root = "vector" THEN vs ELSE ms

operatorBecomes(o) ==
    IF root = "vector" THEN vs' = o /\ UNCHANGED ms ELSE ms' = o /\ UNCHANGED vs

\* The operator with the scanners and series the initializer of loadSeries
\* fills in; the done flag of the Once is stored when doSlow returns.
filled(o, st) ==
    IF root = "vector"
    THEN [vectorLoadSeries(o, st).o EXCEPT !.once = FALSE]
    ELSE [matrixLoadSeries(o, st).o EXCEPT !.once = FALSE]

\* A Once without mutual exclusion: doSlow never waits.
canLockAlways(c) == TRUE

\* sync.Once.doSlow: o.m.Lock() returns when no goroutine holds the mutex.
canLock(c) == c.mutex = 0

concUnchanged ==
    /\ UNCHANGED <<ctxDone, ret, calls, emitted, root, query, pulls, selected>>
    /\ UNCHANGED planVars

\* A goroutine calls Series or Next; Next goes on to loadSeries (the context
\* is live and currentStep has not passed maxt).
GoCall ==
    /\ root \in {"vector", "matrix"}
    /\ \E t \in Threads, c \in {"Series", "Next"} :
        /\ conc.pc[t] = "idle"
        /\ conc' = [conc EXCEPT !.pc[t] = "do", !.call[t] = c, !.err[t] = FALSE]
    /\ UNCHANGED <<vs, ms, store>>
    /\ concUnchanged

\* o.once.Do: the fast path returns when the done flag is set.
OnceDo ==
    /\ \E t \in Threads :
        /\ conc.pc[t] = "do"
        /\ conc' = [conc EXCEPT !.pc[t] = IF operator.once THEN "read" ELSE "lock"]
    /\ UNCHANGED <<vs, ms, store>>
    /\ concUnchanged

\* doSlow: take the mutex; run the initializer unless the done flag is set.
OnceLock ==
    /\ \E t \in Threads :
        /\ conc.pc[t] = "lock"
        /\ canLock(conc)
        /\ conc' = IF operator.once
                   THEN [conc EXCEPT !.pc[t] = "read"]
                   ELSE [conc EXCEPT !.pc[t] = "getSeries", !.mutex = t]
    /\ UNCHANGED <<vs, ms, store>>
    /\ concUnchanged

\* The initializer of loadSeries calls GetSeries of the storage; on an error
\* it returns at once.
OnceGetSeries ==
    /\ \E t \in Threads :
        /\ conc.pc[t] = "getSeries"
        /\ conc' = [conc EXCEPT !.pc[t] = IF store.fails THEN "done" ELSE "fill",
                                !.err[t] = store.fails,
                                !.getSeries = @ + 1]
    /\ UNCHANGED <<vs, ms, store>>
    /\ concUnchanged

\* The initializer of loadSeries fills o.scanners and o.series.
OnceFill ==
    /\ \E t \in Threads :
        /\ conc.pc[t] = "fill"
        /\ conc' = [conc EXCEPT !.pc[t] = "done"]
    /\ operatorBecomes(filled(operator, store))
    /\ store' = IF root = "matrix" THEN sortedInPlace(ms, store) ELSE store
    /\ concUnchanged

\* doSlow returns: the done flag is stored and the mutex unlocked; loadSeries
\* returns the error of its initializer.
OnceDone ==
    /\ \E t \in Threads :
        /\ conc.pc[t] = "done"
        /\ conc' = [conc EXCEPT !.pc[t] = IF conc.err[t] THEN "idle" ELSE "read",
                                !.mutex = 0]
    /\ operatorBecomes([operator EXCEPT !.once = TRUE])
    /\ UNCHANGED store
    /\ concUnchanged

\* Series reads o.series, Next reads o.scanners; the read is early when the
\* initializer has not completed.
ReadLoaded ==
    /\ \E t \in Threads :
        /\ conc.pc[t] = "read"
        /\ conc' = [conc EXCEPT !.pc[t] = "idle",
                                !.earlyRead = @ \/ ~operator.once]
    /\ UNCHANGED <<vs, ms, store>>
    /\ concUnchanged

\* ------------------------------------------------ distributed execution plan
\* Go's integer division and remainder (truncated toward zero), b > 0.
goDiv(a, b) == IF a >= 0 THEN a \div b ELSE -((-a) \div b)

goMod(a, b) == a - b * goDiv(a, b)

\* time.UnixMilli(msec): the Time, as seconds and nanoseconds since the epoch.
timeUnixMilli(msec) ==
    LET sec == goDiv(msec, 1000)
        nsec == goMod(msec, 1000) * 1000000
    IN IF nsec < 0 THEN [sec |-> sec - 1, nsec |-> nsec + 1000000000]
       ELSE [sec |-> sec, nsec |-> nsec]

\* Time.UnixMilli()
UnixMilli(t) == t.sec * 1000 + t.nsec \div 1000000

\* numSteps(start, end, step); step in milliseconds
numSteps(start, end, step) ==
    goDiv(UnixMilli(end) - UnixMilli(start), step) + 1

\* calculateStepAlignedStart that starts the remote query at the engine's
\* min time, off the step grid.
calculateStartAtMinT(engine, o) == timeUnixMilli(engine.MinT)

\* calculateStepAlignedStart(engine, opts)
calculateStepAlignedStart(engine, o) ==
    LET originalSteps == numSteps(o.Start, o.End, o.Step)
        remoteQuerySteps == numSteps(timeUnixMilli(engine.MinT), o.End, o.Step)
        stepsToSkip == originalSteps - remoteQuerySteps
        stepAlignedStartTime == UnixMilli(o.Start) + stepsToSkip * o.Step
    IN timeUnixMilli(stepAlignedStartTime)

\* ---------------------------------------------------------------- expressions
\* A parser.Expr is a record with a field kind; the absent expression (a nil
\* parent, a nil Param) is NilExpr.
NilExpr == [kind |-> "nil"]

VectorSelector(name) == [kind |-> "VectorSelector", Name |-> name]

MatrixSelector(vectorSelector) ==
    [kind |-> "MatrixSelector", VectorSelector |-> vectorSelector]

NumberLiteral == [kind |-> "NumberLiteral"]

Call(func, args) == [kind |-> "Call", Func |-> func, Args |-> args]

AggregateExpr(op, expr, param, grouping, without) ==
    [kind |-> "AggregateExpr", Op |-> op, Expr |-> expr, Param |-> param,
     Grouping |-> grouping, Without |-> without]

BinaryExpr(lhs, rhs) == [kind |-> "BinaryExpr", LHS |-> lhs, RHS |-> rhs]

\* strings.Join(parts, ", ") over printed forms (sequences of tokens).
RECURSIVE joinTokens(_)
joinTokens(parts) ==
    IF Len(parts) = 0 THEN <<>>
    ELSE IF Len(parts) = 1 THEN parts[1]
    ELSE parts[1] \o <<",">> \o joinTokens(Tail(parts))

\* RemoteExecution.String
remoteString(r) == <<"remote", "(">> \o r.Query \o <<")">>

\* Deduplicate.String
dedupString(r) ==
    <<"dedup", "(">>
    \o joinTokens([k \in 1..Len(r.Expressions) |-> remoteString(r.Expressions[k])])
    \o <<")">>

\* The aggregation operator with its grouping clause, as the printer of
\* parser.AggregateExpr writes it.
aggOpString(node) ==
    IF node.Without
    THEN <<node.Op, "without", "(">>
         \o joinTokens([k \in 1..Len(node.Grouping) |-> <<node.Grouping[k]>>])
         \o <<")">>
    ELSE IF Len(node.Grouping) > 0
    THEN <<node.Op, "by", "(">>
         \o joinTokens([k \in 1..Len(node.Grouping) |-> <<node.Grouping[k]>>])
         \o <<")">>
    ELSE <<node.Op>>

\* Expr.String: the textual form of an expression, as its sequence of tokens.
RECURSIVE String(_)
String(expr) ==
    CASE expr.kind = "VectorSelector" -> <<expr.Name>>
      [] expr.kind = "MatrixSelector" ->
            String(expr.VectorSelector) \o <<"[", "1m", "]">>
      [] expr.kind = "NumberLiteral" -> <<"1">>
      [] expr.kind = "Call" ->
            <<expr.Func, "(">>
            \o joinTokens([k \in 1..Len(expr.Args) |-> String(expr.Args[k])])
            \o <<")">>
      [] expr.kind = "AggregateExpr" ->
            aggOpString(expr) \o <<"(">>
            \o (IF expr.Param.kind = "nil" THEN <<>>
                ELSE String(expr.Param) \o <<",">>)
            \o String(expr.Expr) \o <<")">>
      [] expr.kind = "BinaryExpr" ->
            String(expr.LHS) \o <<"+">> \o String(expr.RHS)
      [] expr.kind = "Deduplicate" -> dedupString(expr)
      [] OTHER -> <<>>

\* The RemoteExecution distributeQuery emits for engine e.
remoteExecution(e, expr, o) ==
    [Engine |-> e,
     Query  |-> String(expr),
     QueryRangeStart |-> IF e.MinT > UnixMilli(o.Start)
                         THEN calculateStepAlignedStart(e, o)
                         ELSE o.Start]

\* skipsEngine that forgets the lookback before Start.
skipsEngineBeforeStart(e, o) ==
    \/ e.MaxT < UnixMilli(o.Start)
    \/ e.MinT > UnixMilli(o.End)

\* Engines whose time range distributeQuery skips.
skipsEngine(e, o) ==
    \/ e.MaxT < UnixMilli(o.Start) - o.LookbackDelta
    \/ e.MinT > UnixMilli(o.End)

\* One iteration of the loop of distributeQuery over the engines;
\* acc = [Expressions, aligned], aligned being the engines that
\* calculateStepAlignedStart was invoked for.
distributeStep(acc, e, expr, o) ==
    IF skipsEngine(e, o) THEN acc
    ELSE [Expressions |-> Append(acc.Expressions, remoteExecution(e, expr, o)),
          aligned |-> IF e.MinT > UnixMilli(o.Start)
                      THEN Append(acc.aligned, e) ELSE acc.aligned]

\* The loop of distributeQuery over the engines from the i-th on.
RECURSIVE remoteQueries(_, _, _, _, _)
remoteQueries(expr, es, o, i, acc) ==
    IF i > Len(es) THEN acc
    ELSE remoteQueries(expr, es, o, i + 1, distributeStep(acc, es[i], expr, o))

\* distributeQuery(expr, engines, opts): the Deduplicate node.
distributeQuery(expr, es, o) ==
    [kind |-> "Deduplicate",
     Expressions |-> remoteQueries(expr, es, o, 1,
                        [Expressions |-> <<>>, aligned |-> <<>>]).Expressions]

\* distributiveAggregations
distributiveAggregations ==
    {"sum", "min", "max", "group", "count", "bottomk", "topk"}

\* isDistributive(expr); a nil expr is NilExpr.
isDistributive(expr) ==
    CASE expr.kind = "nil" -> FALSE
      [] expr.kind = "BinaryExpr" -> FALSE
      [] expr.kind = "AggregateExpr" -> expr.Op \in distributiveAggregations
      [] expr.kind = "Call" -> Len(expr.Args) > 0
      [] OTHER -> TRUE

\* newRemoteAggregation: the loop over the labels of one label set.
RECURSIVE groupLabels(_, _, _, _)
groupLabels(groupingSet, lbls, without, i) ==
    IF i > Len(lbls) THEN groupingSet
    ELSE groupLabels(IF without THEN groupingSet \ {lbls[i].Name}
                     ELSE groupingSet \cup {lbls[i].Name},
                     lbls, without, i + 1)

\* newRemoteAggregation: the loop over the label sets of one engine.
RECURSIVE groupLabelSets(_, _, _, _)
groupLabelSets(groupingSet, labelSets, without, i) ==
    IF i > Len(labelSets) THEN groupingSet
    ELSE groupLabelSets(groupLabels(groupingSet, labelSets[i], without, 1),
                        labelSets, without, i + 1)

\* newRemoteAggregation: the loop over the engines.
RECURSIVE groupEngines(_, _, _, _)
groupEngines(groupingSet, es, without, i) ==
    IF i > Len(es) THEN groupingSet
    ELSE groupEngines(groupLabelSets(groupingSet, es[i].LabelSets, without, 1),
                      es, without, i + 1)

\* sort.Strings over the keys of the grouping set.
RECURSIVE sortStrings(_)
sortStrings(set) ==
    IF set = {} THEN <<>>
    ELSE LET least == CHOOSE x \in set : \A y \in set : labelRank(x) <= labelRank(y)
         IN <<least>> \o sortStrings(set \ {least})

\* newRemoteAggregation that adds the engines' label names to a `without`
\* grouping as it does to a `by` grouping.
newRemoteAggregationUnion(rootAggregation, es) ==
    [rootAggregation EXCEPT !.Grouping =
        sortStrings(groupEngines({rootAggregation.Grouping[k] :
                                    k \in 1..Len(rootAggregation.Grouping)},
                                 es, FALSE, 1))]

\* newRemoteAggregation(rootAggregation, engines)
newRemoteAggregation(rootAggregation, es) ==
    [rootAggregation EXCEPT !.Grouping =
        sortStrings(groupEngines({rootAggregation.Grouping[k] :
                                    k \in 1..Len(rootAggregation.Grouping)},
                                 es, rootAggregation.Without, 1))]

\* localAggregation that leaves count as it is.
localAggregationSame(op) == op

\* The operator of the aggregation Optimize leaves in the local plan.
localAggregation(op) == IF op = "count" THEN "sum" ELSE op

\* The callback Optimize hands to traverseBottomUp, on a distributive
\* current: [expr, stop, rewrites], expr being what *current is afterwards
\* and rewrites the assignments to *current, as [from, to].
distribute(parent, current, es, o) ==
    IF current.kind = "AggregateExpr"
    THEN [expr |-> AggregateExpr(localAggregation(current.Op),
                        distributeQuery(newRemoteAggregation(current, es), es, o),
                        current.Param, current.Grouping, current.Without),
          stop |-> TRUE,
          rewrites |-> << [from |-> current,
                           to |-> AggregateExpr(localAggregation(current.Op),
                                distributeQuery(newRemoteAggregation(current, es), es, o),
                                current.Param, current.Grouping, current.Without)] >>]
    ELSE IF isDistributive(parent)
    THEN [expr |-> current, stop |-> FALSE, rewrites |-> <<>>]
    ELSE [expr |-> distributeQuery(current, es, o), stop |-> TRUE,
          rewrites |-> << [from |-> current,
                           to |-> distributeQuery(current, es, o)] >>]

\* The callback Optimize hands to traverseBottomUp.
transform(parent, current, es, o) ==
    IF ~isDistributive(current)
    THEN [expr |-> current, stop |-> TRUE, rewrites |-> <<>>]
    ELSE distribute(parent, current, es, o)

\* traverseBottomUp hands the node to the callback unless the traversal of
\* its children has stopped; r = [expr, stop, rewrites] is what the children
\* left, expr being the node with its children as they are afterwards.
visit(parent, r, es, o) ==
    IF r.stop THEN r
    ELSE [transform(parent, r.expr, es, o) EXCEPT !.rewrites = r.rewrites \o @]

\* A node whose only child the traversal left as c.
withExpr(current, c) ==
    [expr |-> [current EXCEPT !.Expr = c.expr], stop |-> c.stop,
     rewrites |-> c.rewrites]

\* A matrix selector whose vector selector the callback left as c.
withVectorSelector(current, c) ==
    [expr |-> [current EXCEPT !.VectorSelector = c.expr], stop |-> c.stop,
     rewrites |-> c.rewrites]

\* A binary expression whose sides the traversal left as l and r: both sides
\* are traversed, and the traversal stops when either has stopped.
withSides(current, l, r) ==
    [expr |-> [current EXCEPT !.LHS = l.expr, !.RHS = r.expr],
     stop |-> l.stop \/ r.stop, rewrites |-> l.rewrites \o r.rewrites]

\* A call whose i-th argument the traversal left as c, after log.
withArg(current, i, c, log) ==
    [expr |-> [current EXCEPT !.Args[i] = c.expr], stop |-> c.stop,
     rewrites |-> log \o c.rewrites]

RECURSIVE traverseBottomUp(_, _, _, _)
RECURSIVE traverseArgs(_, _, _, _)
RECURSIVE traverseArgsOn(_, _, _, _)

\* The loop of traverseBottomUp over the arguments of a call, from the i-th
\* on; a = [expr, stop, rewrites] is what the arguments before left.
traverseArgs(a, i, es, o) ==
    IF a.stop \/ i > Len(a.expr.Args) THEN a
    ELSE traverseArgsOn(a, i, es, o)

traverseArgsOn(a, i, es, o) ==
    traverseArgs(withArg(a.expr, i,
                         traverseBottomUp(a.expr, a.expr.Args[i], es, o),
                         a.rewrites),
                 i + 1, es, o)

\* traverseBottomUp(parent, current, transform): [expr, stop, rewrites].
traverseBottomUp(parent, current, es, o) ==
    CASE current.kind = "NumberLiteral" ->
            [expr |-> current, stop |-> FALSE, rewrites |-> <<>>]
      [] current.kind = "VectorSelector" -> transform(parent, current, es, o)
      [] current.kind = "MatrixSelector" ->
            withVectorSelector(current,
                transform(current, current.VectorSelector, es, o))
      [] current.kind = "AggregateExpr" ->
            visit(parent,
                  withExpr(current, traverseBottomUp(current, current.Expr, es, o)),
                  es, o)
      [] current.kind = "Call" ->
            visit(parent,
                  traverseArgs([expr |-> current, stop |-> FALSE,
                                rewrites |-> <<>>], 1, es, o),
                  es, o)
      [] current.kind = "BinaryExpr" ->
            visit(parent,
                  withSides(current,
                            traverseBottomUp(current, current.LHS, es, o),
                            traverseBottomUp(current, current.RHS, es, o)),
                  es, o)
      [] OTHER -> [expr |-> current, stop |-> TRUE, rewrites |-> <<>>]

\* DistributedExecutionOptimizer.Optimize(plan, opts): [expr, stop, rewrites],
\* expr being the plan returned.
Optimize(expr, es, o) == traverseBottomUp(NilExpr, expr, es, o)

\* What a call of Optimize leaves.
optimizedAs(r) ==
    /\ optimized' = [done |-> TRUE, expr |-> r.expr]
    /\ rewrites' = r.rewrites

\* The optimizer rewrites the plan.
OptimizePlan ==
    /\ root = "none"
    /\ ~optimized.done
    /\ optimizedAs(Optimize(plan, engines, opts))
    /\ UNCHANGED <<opts, engines, dedup, plan>>
    /\ UNCHANGED selVars
    /\ UNCHANGED conc

\* What a call of distributeQuery leaves; r is the loop's [Expressions, aligned].
distributedAs(r) ==
    dedup' = [done |-> TRUE, Expressions |-> r.Expressions, aligned |-> r.aligned]

\* The optimizer distributes the plan over the engines.
DistributeQuery ==
    /\ root = "none"
    /\ ~dedup.done
    /\ distributedAs(remoteQueries(plan, engines, opts, 1,
                                   [Expressions |-> <<>>, aligned |-> <<>>]))
    /\ UNCHANGED <<opts, engines, plan, optimized, rewrites>>
    /\ UNCHANGED selVars
    /\ UNCHANGED conc

\* ------------------------------------------------------------ initial states
\* Labels of the i-th series of storage, as storage hands them out.
seriesLabels(i) ==
    << [Name |-> MetricName, Value |-> 0], [Name |-> "a", Value |-> i] >>

storageSeries(streams) ==
    [i \in 1..Len(streams) |->
        [Labels |-> seriesLabels(i), Signature |-> i, Samples |-> streams[i]]]

\* Streams that carry the same kind of sample at every time.
UniformStreams == { StreamFrom([t \in Times |-> k], 0) : k \in SampleKinds }

SeqsUpTo(S, n) == UNION { [1..k -> S] : k \in 0..n }

\* (start, end, step) of range queries, and of instant queries (step 0).
QueryRanges ==
    { <<s, e, st>> \in Times \X Times \X (0..MaxStep) :
        /\ s <= e
        /\ (st = 0 => s = e) }

NoPulls == [sizes |-> <<>>, eos |-> FALSE]

\* No goroutine is in a call, the mutex of o.once is free (0), GetSeries has
\* not been called, nothing was read early.
NoCalls ==
    [pc |-> [t \in Threads |-> "idle"], call |-> [t \in Threads |-> "none"],
     err |-> [t \in Threads |-> FALSE],
     mutex |-> 0, getSeries |-> 0, earlyRead |-> FALSE]

NoOpts == [Start |-> timeUnixMilli(0), End |-> timeUnixMilli(0), Step |-> 1,
           LookbackDelta |-> 0]

NoDedup == [done |-> FALSE, Expressions |-> <<>>, aligned |-> <<>>]

NotOptimized == [done |-> FALSE, expr |-> NilExpr]

InitPlanIdle ==
    /\ opts = NoOpts
    /\ engines = <<>>
    /\ dedup = NoDedup
    /\ plan = NilExpr
    /\ optimized = NotOptimized
    /\ rewrites = <<>>

InitSelIdle ==
    /\ store = [series |-> <<>>, fails |-> FALSE, reused |-> FALSE]
    /\ ctxDone = FALSE
    /\ query = [Start |-> 0, End |-> 0, Step |-> 0, StepsBatch |-> 1]
    /\ vs = NewVectorSelector(0, 0, 0, 0, 1)
    /\ ms = NewMatrixSelector("sum_over_time", 0, 0, 0, 1, 0, 0, 0)
    /\ ret = [vector |-> NoReturn, matrix |-> NoReturn]
    /\ calls = <<>>
    /\ emitted = [vector |-> <<>>, matrix |-> <<>>]
    /\ pulls = [vector |-> NoPulls, matrix |-> NoPulls]
    /\ selected = <<>>
    /\ conc = NoCalls

\* The selectors as constructed for one query over one storage.
InitSelectors(streams, fails, q, stepsBatch, lookback, fn, selectRange, offset) ==
    /\ store = [series |-> storageSeries(streams), fails |-> fails,
                reused |-> FALSE]
    /\ ctxDone = FALSE
    /\ query = [Start |-> q[1], End |-> q[2], Step |-> q[3],
                StepsBatch |-> stepsBatch]
    /\ vs = NewVectorSelector(q[1], q[2], q[3], lookback, stepsBatch)
    /\ ms = NewMatrixSelector(fn, q[1], q[2], q[3], stepsBatch,
                              selectRange, offset, lookback)
    /\ ret = [vector |-> NoReturn, matrix |-> NoReturn]
    /\ calls = <<>>
    /\ emitted = [vector |-> <<>>, matrix |-> <<>>]
    /\ pulls = [vector |-> NoPulls, matrix |-> NoPulls]
    /\ selected = <<>>
    /\ conc = NoCalls

\* Operators over a storage of 0..MaxSeries uniform series, pulled by a caller
\* that may cancel.
Init ==
    /\ root \in {"vector", "matrix"}
    /\ \E streams \in SeqsUpTo(UniformStreams, MaxSeries), fails \in BOOLEAN,
          q \in QueryRanges, stepsBatch \in 1..MaxBatch,
          fn \in {"sum_over_time", "xrate"} :
          InitSelectors(streams, fails, q, stepsBatch, MaxExt, fn, 1, 0)
    /\ InitPlanIdle

Next ==
    \/ VectorNext
    \/ VectorSeries
    \/ MatrixNext
    \/ MatrixSeries
    \/ CancelCtx

Spec == Init /\ [][Next]_vars

\* The matrix selector over one series with any samples, pulled to the end.
InitPoints ==
    /\ root = "matrix"
    /\ \E ss \in Streams, start \in 0..1, step \in 1..MaxStep,
          stepsBatch \in 1..MaxBatch, fn \in {"sum_over_time", "xrate"},
          selectRange \in 0..MaxRange, offset \in 0..1, ext \in 0..MaxExt :
          /\ (fn = "sum_over_time" => ext = 0)
          /\ InitSelectors(<<ss>>, FALSE, <<start, MaxTime, step>>, stepsBatch,
                           ext, fn, selectRange, offset)
    /\ InitPlanIdle

NextPoints == MatrixNext

SpecPoints == InitPoints /\ [][NextPoints]_vars

\* The vector selector over one series with any samples, pulled to the end.
InitScan ==
    /\ root = "vector"
    /\ \E ss \in Streams, start \in 0..1, step \in 1..MaxStep,
          stepsBatch \in 1..MaxBatch, lookback \in 0..MaxExt :
          InitSelectors(<<ss>>, FALSE, <<start, MaxTime, step>>, stepsBatch,
                        lookback, "sum_over_time", 1, 0)
    /\ InitPlanIdle

NextScan == VectorNext

SpecScan == InitScan /\ [][NextScan]_vars

\* The matrix selector of any function enumerating the series of storage.
InitLabels ==
    /\ root = "matrix"
    /\ \E streams \in SeqsUpTo(UniformStreams, MaxSeries), q \in QueryRanges,
          fn \in {"sum_over_time", "xrate", "last_over_time"} :
          InitSelectors(streams, FALSE, q, MaxBatch, MaxExt, fn, 1, 0)
    /\ InitPlanIdle

NextLabels == MatrixSeries \/ MatrixNext \/ StorageReuse

SpecLabels == InitLabels /\ [][NextLabels]_vars

\* Goroutines calling Series and Next of one operator at the same time.
InitOnce ==
    /\ root \in {"vector", "matrix"}
    /\ \E streams \in SeqsUpTo(UniformStreams, MaxSeries), fails \in BOOLEAN :
          InitSelectors(streams, fails, <<0, MaxTime, 1>>, 1, MaxExt,
                        "sum_over_time", 1, 0)
    /\ InitPlanIdle

NextOnce ==
    \/ GoCall
    \/ OnceDo
    \/ OnceLock
    \/ OnceGetSeries
    \/ OnceFill
    \/ OnceDone
    \/ ReadLoaded

SpecOnce == InitOnce /\ [][NextOnce]_vars

\* The optimizer distributing one expression over its engines.
EngineTimes == 0..(MaxTime + 1)

EngineRanges == { <<a, b>> \in EngineTimes \X EngineTimes : b = a \/ b = MaxTime + 1 }

\* Engines that hold data from MinT on, either for that instant only or up to
\* the end of the timeline.
Engines == { [MinT |-> r[1], MaxT |-> r[2], LabelSets |-> <<>>] : r \in EngineRanges }

InitPlan ==
    /\ root = "none"
    /\ InitSelIdle
    /\ \E start \in Times, end \in Times, step \in 1..MaxStep,
          lookback \in 0..MaxExt :
          /\ start <= end
          /\ opts = [Start |-> timeUnixMilli(start), End |-> timeUnixMilli(end),
                     Step |-> step, LookbackDelta |-> lookback]
    /\ engines \in SeqsUpTo(Engines, MaxEngines) \ {<<>>}
    /\ dedup = NoDedup
    /\ plan \in {VectorSelector("m"), Call("rate", <<MatrixSelector(VectorSelector("m"))>>)}
    /\ optimized = NotOptimized
    /\ rewrites = <<>>

NextPlan == DistributeQuery

SpecPlan == InitPlan /\ [][NextPlan]_vars

\* The optimizer rewriting one expression.
Metric == VectorSelector("m")

\* The expressions without an argument: a vector selector, a matrix
\* selector, a number and a call without arguments.
Leaves == {Metric, MatrixSelector(Metric), NumberLiteral, Call("time", <<>>)}

\* The aggregations of a plan: an operator of the allow-list with its
\* parameter (for topk and bottomk a scalar expression: a number or a call
\* of time()), and a grouping clause.
AggregateParams(op) ==
    IF op \in {"topk", "bottomk"} THEN {NumberLiteral, Call("time", <<>>)}
    ELSE {NilExpr}

GroupingClauses ==
    { [Grouping |-> <<>>, Without |-> FALSE],
      [Grouping |-> <<"job", "a">>, Without |-> FALSE],
      [Grouping |-> <<"job", "a">>, Without |-> TRUE] }

\* The expressions one level above those of S: a call, a call with a sibling
\* call without arguments, the aggregation op, avg, and a binary expression.
Wrap(S, op, g) ==
    S \cup { Call("abs", <<e>>) : e \in S }
      \cup { Call("clamp_min", <<Call("time", <<>>), e>>) : e \in S }
      \cup { AggregateExpr(op, e, p, g.Grouping, g.Without) :
                e \in S, p \in AggregateParams(op) }
      \cup { AggregateExpr("avg", e, NilExpr, <<>>, FALSE) : e \in S }
      \cup { BinaryExpr(e, Metric) : e \in S }

RECURSIVE ExprsOf(_, _, _)
ExprsOf(depth, op, g) ==
    IF depth = 0 THEN Leaves ELSE Wrap(ExprsOf(depth - 1, op, g), op, g)

\* Label sets an engine advertises.
LabelSetsOf ==
    { << <<[Name |-> "cluster", Value |-> 1]>> >>,
      << <<[Name |-> "job", Value |-> 1]>>,
         <<[Name |-> "a", Value |-> 1], [Name |-> "cluster", Value |-> 2]>> >> }

LabelledEngines ==
    { [MinT |-> 0, MaxT |-> MaxTime + 1, LabelSets |-> l] : l \in LabelSetsOf }

InitOptimize ==
    /\ root = "none"
    /\ InitSelIdle
    /\ opts = [Start |-> timeUnixMilli(0), End |-> timeUnixMilli(MaxTime),
               Step |-> 1, LookbackDelta |-> 0]
    /\ engines \in SeqsUpTo(LabelledEngines, MaxEngines) \ {<<>>}
    /\ dedup = NoDedup
    /\ \E op \in distributiveAggregations, g \in GroupingClauses :
          plan \in ExprsOf(MaxDepth, op, g)
    /\ optimized = NotOptimized
    /\ rewrites = <<>>

NextOptimize == OptimizePlan

SpecOptimize == InitOptimize /\ [][NextOptimize]_vars

\* ------------------------------------------------------------------ claims
\* The window [mint, maxt] of a call of the range function.
callMaxt(c) == c.StepTime - c.Offset

callMint(c) == callMaxt(c) - c.SelectRange

\* A fresh evaluation of the window of call c: empty out, new buffered
\* iterator.
freshPoints(c) ==
    selectPoints(newMatrixScanner(ms, store.series[c.Series]).samples,
                 store.series[c.Series].Samples, callMint(c), callMaxt(c), <<>>,
                 ms.funcName, ms.extLookbackDelta).out

\* C1: at every step the points handed to the range function, computed with
\* the reused out slice and the reused buffered iterator, equal the points of
\* a fresh evaluation of that step.
C1_ReuseEqualsFresh ==
    \A k \in 1..Len(calls) : calls[k].Points = freshPoints(calls[k])

\* The non-stale samples of ss with timestamp in [mint, maxt], in order.
windowPoints(ss, mint, maxt) ==
    SelectSeq(ss, LAMBDA p : p.T >= mint /\ p.T <= maxt /\ ~IsStaleNaN(p.V))

callSamples(c) == store.series[c.Series].Samples

\* C8: for a non-extended function, at every step the points handed to the
\* range function are exactly the non-stale samples of the series in the
\* closed window [T - offset - R, T - offset], ascending, each once.
C8_ClosedWindow ==
    ~IsExtFunction(ms.funcName) =>
        \A k \in 1..Len(calls) :
            calls[k].Points =
                windowPoints(callSamples(calls[k]), callMint(calls[k]),
                             callMaxt(calls[k]))

\* A step after the first (its out slice is reused) whose window holds two
\* points and a stale sample, and whose series has a sample before the window.
C8_Witness ==
    /\ ~IsExtFunction(ms.funcName)
    /\ \E k \in 1..Len(calls) :
        /\ calls[k].StepTime > ms.mint
        /\ Len(calls[k].Points) >= 2
        /\ \E j \in 1..Len(callSamples(calls[k])) :
            LET p == callSamples(calls[k])[j]
            IN /\ IsStaleNaN(p.V)
               /\ p.T >= callMint(calls[k])
               /\ p.T <= callMaxt(calls[k])
        /\ \E j \in 1..Len(callSamples(calls[k])) :
            /\ callSamples(calls[k])[j].T < callMint(calls[k])
            /\ ~IsStaleNaN(callSamples(calls[k])[j].V)

\* C9: for an extended-range function, at every step the points hold at most
\* one point at or before minT; it is the first point and not older than
\* minT - extLookbackDelta; every other point lies in (minT, maxT].
C9_OneAnchorWithinLookback ==
    IsExtFunction(ms.funcName) =>
        \A k \in 1..Len(calls) :
            LET pts == calls[k].Points
                mint == callMint(calls[k])
                maxt == callMaxt(calls[k])
            IN /\ Cardinality({j \in 1..Len(pts) : pts[j].T <= mint}) <= 1
               /\ \A j \in 1..Len(pts) :
                    IF pts[j].T <= mint
                    THEN j = 1 /\ pts[j].T >= mint - ms.extLookbackDelta
                    ELSE pts[j].T <= maxt

\* C10: no point handed to the range function is a stale NaN.
C10_NoStalePoint ==
    \A k \in 1..Len(calls) :
        \A j \in 1..Len(calls[k].Points) : ~IsStaleNaN(calls[k].Points[j].V)

\* A step after the first with points carried over, whose window holds a
\* stale sample before maxT and whose sample at maxT is stale too.
C10_Witness ==
    \E k \in 1..Len(calls) :
        /\ calls[k].StepTime > ms.mint
        /\ Len(calls[k].Points) >= 1
        /\ \E i, j \in 1..Len(callSamples(calls[k])) :
            LET p == callSamples(calls[k])[i]
                q == callSamples(calls[k])[j]
            IN /\ IsStaleNaN(p.V) /\ IsStaleNaN(q.V)
               /\ p.T >= callMint(calls[k]) /\ p.T < callMaxt(calls[k])
               /\ q.T = callMaxt(calls[k])

Operators == {"vector", "matrix"}

\* C2: once a call of Next or Series has returned the storage error of the
\* series enumeration, every later call on that operator returns it too.
C2_StorageErrorTerminal ==
    [][\A o \in Operators : ret[o].err = "storage" => ret'[o].err = "storage"]_vars

\* mint, mint+step, ..., the last one at or before maxt.
progression(mint, maxt, step) ==
    [k \in 1..((maxt - mint) \div step + 1) |-> mint + (k - 1) * step]

isPrefix(a, b) == Len(a) <= Len(b) /\ a = SubSeq(b, 1, Len(a))

\* Next returned end-of-stream.
endOfStream(o) == ret[o].call = "Next" /\ ret[o].isNil /\ ret[o].err = "nil"

\* C6: the timestamps of the step vectors emitted over the pulls, in pull
\* order, are a prefix of mint, mint+step, ... <= maxt, and are all of it once
\* Next has returned end-of-stream.
C6_ExactProgression ==
    \A o \in Operators :
        (query.Start <= query.End /\ query.Step > 0) =>
            LET prog == progression(query.Start, query.End, query.Step)
            IN /\ isPrefix(emitted[o], prog)
               /\ (endOfStream(o) => emitted[o] = prog)

\* C7: a pull made with a cancelled context returns the cancellation error
\* and no batch.
C7_CancelledPullFails ==
    \A o \in Operators :
        (ret[o].call = "Next" /\ ret[o].ctxDone) =>
            (ret[o].err = "canceled" /\ ret[o].isNil)

\* The latest sample of ss at or before ts, as a set of at most one position.
latestAt(ss, ts) ==
    { j \in 1..Len(ss) :
        /\ ss[j].T <= ts
        /\ \A k \in 1..Len(ss) : ss[k].T <= ts => ss[k].T <= ss[j].T }

\* Series i has a live sample for step ts within the lookback.
hasPoint(i, ts, lookbackDelta) ==
    \E j \in latestAt(store.series[i].Samples, ts) :
        /\ store.series[i].Samples[j].T >= ts - lookbackDelta
        /\ ~IsStaleNaN(store.series[i].Samples[j].V)

pointValue(i, ts) ==
    LET ss == store.series[i].Samples
    IN ss[CHOOSE j \in latestAt(ss, ts) : TRUE].V

\* The step vector of ts that the lookback rule asks for.
lookbackVector(ts, lookbackDelta) ==
    LET ids == SelectSeq([i \in 1..Len(store.series) |-> store.series[i].Signature],
                         LAMBDA i : hasPoint(i, ts, lookbackDelta))
    IN [T |-> ts, SampleIDs |-> ids,
        Samples |-> [k \in 1..Len(ids) |-> pointValue(ids[k], ts)]]

\* C5: every step vector the vector selector returns holds, for each series
\* in enumeration order, the value of its latest sample at or before the step
\* time when that sample is within the lookback and not stale, and nothing
\* for the other series.
C5_LookbackSample ==
    \A k \in 1..Len(ret.vector.vectors) :
        ret.vector.vectors[k] =
            lookbackVector(ret.vector.vectors[k].T, vs.lookbackDelta)

\* The remote executions of engines whose min time lies in (Start, End].
lateEngine(r) ==
    /\ UnixMilli(opts.Start) < r.Engine.MinT
    /\ r.Engine.MinT <= UnixMilli(opts.End)

\* C3: the start time of the remote execution of an engine with
\* Start < MinT <= End is at or after the engine's MinT.
C3_RemoteStartAfterMinT ==
    \A k \in 1..Len(dedup.Expressions) :
        lateEngine(dedup.Expressions[k]) =>
            UnixMilli(dedup.Expressions[k].QueryRangeStart)
                >= dedup.Expressions[k].Engine.MinT

\* C4: the start time of the remote execution of an engine with
\* Start < MinT <= End lies on the step grid of the query, within
\* [Start, End]; that of an engine with MinT <= Start is Start.
C4_RemoteStartOnGrid ==
    \A k \in 1..Len(dedup.Expressions) :
        LET r == dedup.Expressions[k]
            remoteStart == UnixMilli(r.QueryRangeStart)
        IN /\ lateEngine(r) =>
                /\ (remoteStart - UnixMilli(opts.Start)) % opts.Step = 0
                /\ UnixMilli(opts.Start) <= remoteStart
                /\ remoteStart <= UnixMilli(opts.End)
           /\ r.Engine.MinT <= UnixMilli(opts.Start) =>
                r.QueryRangeStart = opts.Start

\* A plan with an engine starting inside the range, off the grid, whose
\* remote execution skips steps, and an engine starting before the range.
C4_Witness ==
    /\ dedup.done
    /\ (UnixMilli(opts.End) - UnixMilli(opts.Start)) % opts.Step # 0
    /\ \E k \in 1..Len(dedup.Expressions) :
        /\ lateEngine(dedup.Expressions[k])
        /\ (dedup.Expressions[k].Engine.MinT - UnixMilli(opts.Start)) % opts.Step # 0
        /\ UnixMilli(dedup.Expressions[k].QueryRangeStart) > UnixMilli(opts.Start)
    /\ \E k \in 1..Len(dedup.Expressions) :
        dedup.Expressions[k].Engine.MinT <= UnixMilli(opts.Start)

\* The nodes of the locally evaluated part of a plan: the expression and the
\* expressions below it, down to the Deduplicate nodes.
RECURSIVE localNodes(_)
localNodes(expr) ==
    {expr} \cup
    CASE expr.kind = "MatrixSelector" -> localNodes(expr.VectorSelector)
      [] expr.kind = "AggregateExpr" -> localNodes(expr.Expr)
      [] expr.kind = "Call" ->
            UNION { localNodes(expr.Args[k]) : k \in 1..Len(expr.Args) }
      [] expr.kind = "BinaryExpr" -> localNodes(expr.LHS) \cup localNodes(expr.RHS)
      [] OTHER -> {}

\* The rewrites of aggregations of the allow-list.
aggregationRewrites ==
    { k \in 1..Len(rewrites) :
        /\ rewrites[k].from.kind = "AggregateExpr"
        /\ rewrites[k].from.Op \in distributiveAggregations }

\* C11: the node Optimize leaves in the local plan for a distributive
\* aggregation is an aggregation with the original operator, except that
\* count becomes sum, with the original Param, Grouping and Without, over a
\* Deduplicate node.
C11_LocalAggregation ==
    \A k \in aggregationRewrites :
        LET from == rewrites[k].from
            to == rewrites[k].to
        IN /\ to \in localNodes(optimized.expr)
           /\ to.kind = "AggregateExpr"
           /\ to.Op = (IF from.Op = "count" THEN "sum" ELSE from.Op)
           /\ to.Param = from.Param
           /\ to.Grouping = from.Grouping
           /\ to.Without = from.Without
           /\ to.Expr.kind = "Deduplicate"

\* A count with a grouping clause, below another node of the plan, was
\* rewritten to a sum over the remote executions of two engines.
C11_Witness ==
    /\ optimized.done
    /\ \E k \in aggregationRewrites :
        /\ rewrites[k].from.Op = "count"
        /\ Len(rewrites[k].from.Grouping) > 0
        /\ rewrites[k].to.Op = "sum"
        /\ Len(rewrites[k].to.Expr.Expressions) > 1
        /\ rewrites[k].to # optimized.expr

\* Every label name advertised in a label set of an engine.
advertisedNames ==
    UNION { UNION { { engines[i].LabelSets[j][k].Name :
                        k \in 1..Len(engines[i].LabelSets[j]) } :
                    j \in 1..Len(engines[i].LabelSets) } :
            i \in 1..Len(engines) }

\* The grouping labels the claim asks of the remote aggregation.
remoteGroupingSet(aggr) ==
    LET original == { aggr.Grouping[k] : k \in 1..Len(aggr.Grouping) }
    IN IF aggr.Without THEN original \ advertisedNames
       ELSE original \cup advertisedNames

\* The lists of the labels of set, one entry per label, in ascending order.
ascendingLists(set) ==
    { g \in [1..Cardinality(set) -> set] :
        \A i, j \in 1..Cardinality(set) :
            i < j => labelRank(g[i]) < labelRank(g[j]) }

\* C12: the query of every remote execution of a rewritten aggregation is
\* the text of the original aggregation (same operator, Param, Without and
\* argument) with the grouping list replaced by the sorted, duplicate-free
\* list of the original labels united with (by) or minus (without) every
\* label name the engines advertise.
C12_RemoteGrouping ==
    \A k \in aggregationRewrites :
        \A j \in 1..Len(rewrites[k].to.Expr.Expressions) :
            \E g \in ascendingLists(remoteGroupingSet(rewrites[k].from)) :
                rewrites[k].to.Expr.Expressions[j].Query =
                    String([rewrites[k].from EXCEPT !.Grouping = g])

\* A count without (job, a) over two engines that advertise different label
\* sets, the one with more label names first.
C12_Witness ==
    /\ optimized.done
    /\ Len(engines) = 2
    /\ Len(engines[1].LabelSets) > Len(engines[2].LabelSets)
    /\ \E k \in aggregationRewrites :
        /\ rewrites[k].from.Op = "count"
        /\ rewrites[k].from.Without
        /\ rewrites[k].from.Grouping = <<"job", "a">>
        /\ Len(rewrites[k].to.Expr.Expressions) = 2

\* The engines the claim asks a remote execution for.
inRange(e) ==
    /\ e.MaxT >= UnixMilli(opts.Start) - opts.LookbackDelta
    /\ e.MinT <= UnixMilli(opts.End)

\* The text of the plans distributeQuery is handed.
planText ==
    IF plan.kind = "VectorSelector" THEN <<"m">>
    ELSE <<"rate", "(", "m", "[", "1m", "]", ")">>

\* C13: the Deduplicate node holds one remote execution per engine whose
\* range meets [Start - LookbackDelta, End], in the order of the engine
\* list, each with the text of the expression; the other engines get none,
\* and calculateStepAlignedStart is invoked for none of them.
C13_OneRemotePerEngine ==
    dedup.done =>
        /\ Len(dedup.Expressions) = Len(SelectSeq(engines, inRange))
        /\ \A k \in 1..Len(dedup.Expressions) :
            /\ dedup.Expressions[k].Engine = SelectSeq(engines, inRange)[k]
            /\ dedup.Expressions[k].Query = planText
        /\ \A k \in 1..Len(dedup.aligned) : inRange(dedup.aligned[k])

\* An engine that starts after End, skipped, before an engine that ends
\* exactly at Start - LookbackDelta, kept.
C13_Witness ==
    /\ dedup.done
    /\ opts.LookbackDelta > 0
    /\ Len(engines) = 2
    /\ engines[1].MinT > UnixMilli(opts.End)
    /\ engines[2].MaxT = UnixMilli(opts.Start) - opts.LookbackDelta
    /\ Len(dedup.Expressions) = 1
    /\ plan.kind = "Call"

\* C14: a call of Next returns a non-empty batch, end-of-stream (no batch, no
\* error) or a failure (no batch, an error); never an empty batch without
\* error.
C14_NonEmptyBatch ==
    \A o \in Operators :
        ret[o].call = "Next" =>
            /\ (ret[o].err # "nil" => ret[o].isNil)
            /\ ((ret[o].err = "nil" /\ ~ret[o].isNil) => Len(ret[o].vectors) > 0)

\* (maxt - mint)/step + 1 steps of a range query, one step of an instant query.
totalSteps == IF query.Step = 0 THEN 1 ELSE (query.End - query.Start) \div query.Step + 1

\* min(steps_per_batch, total number of steps)
fullBatch == IF query.StepsBatch < totalSteps THEN query.StepsBatch ELSE totalSteps

\* C15: every batch of the vector selector has at most steps_per_batch step
\* vectors, and every batch but the last has min(steps_per_batch, total
\* steps) of them.
C15_BatchSize ==
    \A k \in 1..Len(pulls.vector.sizes) :
        /\ pulls.vector.sizes[k] <= query.StepsBatch
        /\ (k < Len(pulls.vector.sizes) => pulls.vector.sizes[k] >= fullBatch)

\* C16: over every interleaving of calls of Series and Next on one operator,
\* GetSeries of the storage is called at most once and no call reads
\* o.series or o.scanners before the initializer has completed.
C16_EnumeratedOnce ==
    /\ conc.getSeries <= 1
    /\ ~conc.earlyRead

\* A goroutine in Next has run the initializer, which filled the scanners,
\* and is about to leave doSlow, while a goroutine in Series waits for the
\* mutex of the Once.
C16_Witness ==
    /\ conc.getSeries = 1
    /\ Len(operator.scanners) > 0
    /\ \E t, u \in Threads :
        /\ conc.pc[t] = "done" /\ conc.call[t] = "Next"
        /\ conc.pc[u] = "lock" /\ conc.call[u] = "Series"

\* The labels lbls are in ascending order of their names.
sortedByName(lbls) ==
    \A i, j \in 1..Len(lbls) : i < j => labelRank(lbls[i].Name) < labelRank(lbls[j].Name)

hasMetricName(lbls) == \E k \in 1..Len(lbls) : lbls[k].Name = MetricName

\* The labels of series i that the function keeps.
keptLabels(i) ==
    SelectSeq(seriesLabels(i),
              LAMBDA l : ms.funcName = "last_over_time" \/ l.Name # MetricName)

\* C17: the labels a matrix selector exposes for each enumerated series hold
\* the metric name only for last_over_time (which keeps it), are sorted by
\* name, and are a copy of the labels of storage: they stay the labels of the
\* series when storage reuses its label arrays, and the enumeration leaves
\* the labels storage holds as they were.
C17_LabelsCopied ==
    \A i \in 1..Len(ms.series) :
        /\ hasMetricName(ms.series[i]) <=>
                (ms.funcName = "last_over_time" /\ hasMetricName(seriesLabels(i)))
        /\ sortedByName(ms.series[i])
        /\ ms.series[i] = keptLabels(i)
        /\ ms.scanners[i].labels = keptLabels(i)
        /\ (~store.reused => store.series[i].Labels = seriesLabels(i))

\* ceil(totalSteps / steps_per_batch)
totalBatches == (totalSteps + query.StepsBatch - 1) \div query.StepsBatch

\* C18: with no storage error and a live context, an operator returns at most
\* ceil(totalSteps / steps_per_batch) batches and has returned exactly that
\* many when Next returns end-of-stream; an instant query yields one batch
\* of one step vector; and after an end-of-stream every Next returns
\* end-of-stream.
C18_Terminates ==
    \A o \in Operators :
        (~store.fails /\ ~ctxDone /\ query.StepsBatch >= 1) =>
            /\ Len(pulls[o].sizes) <= totalBatches
            /\ (pulls[o].eos => Len(pulls[o].sizes) = totalBatches)
            /\ ((query.Step = 0 /\ pulls[o].eos) => pulls[o].sizes = <<1>>)
            /\ ((pulls[o].eos /\ ret[o].call = "Next") => endOfStream(o))

\* C19: every sample (t, v) that selectPoint(ts, lookbackDelta) reports lies
\* in the lookback window of its step: ts - lookbackDelta <= t <= ts.
C19_WithinLookback ==
    \A k \in 1..Len(selected) :
        /\ selected[k].ts - selected[k].lookbackDelta <= selected[k].t
        /\ selected[k].t <= selected[k].ts

\* The vector selectors in the locally evaluated part of a plan.
localSelectors(expr) == { n \in localNodes(expr) : n.kind = "VectorSelector" }

\* The query texts of the RemoteExecutions of the Deduplicate nodes of a plan.
remoteTexts(expr) ==
    UNION { { n.Expressions[k].Query : k \in 1..Len(n.Expressions) } :
            n \in { d \in localNodes(expr) : d.kind = "Deduplicate" } }

\* C20: after Optimize no vector selector of the input expression is left in
\* the locally evaluated part of the plan, and each of them is named in the
\* query text of a RemoteExecution of some Deduplicate node.
C20_SelectorsRemote ==
    optimized.done =>
        /\ localSelectors(optimized.expr) = {}
        /\ \A v \in localSelectors(plan) :
              \E q \in remoteTexts(optimized.expr) :
                  \E j \in 1..Len(q) : q[j] = v.Name

\* A query text holds a non-distributive node: a binary operation, an
\* aggregation outside the allow-list, or a call without arguments (an
\* opening parenthesis closed at once, other than that of an empty grouping
\* clause).
nonDistributiveText(q) ==
    \E j \in 1..Len(q) :
        \/ q[j] = "+"
        \/ q[j] = "avg"
        \/ /\ j + 2 <= Len(q)
           /\ q[j] \notin {"by", "without"}
           /\ q[j + 1] = "("
           /\ q[j + 2] = ")"

\* C21: after Optimize the query of no RemoteExecution holds a binary
\* operation, an aggregation outside the allow-list or a call without
\* arguments.
C21_RemoteDistributive ==
    optimized.done =>
        \A q \in remoteTexts(optimized.expr) : ~nonDistributiveText(q)

\* The timestamps of pts are strictly increasing.
strictlyIncreasing(pts) == \A j \in 1..(Len(pts) - 1) : pts[j].T < pts[j + 1].T

====
